---- MODULE Spec2Model ----
(***************************************************************************)
(* A model of rudder, a dynamic DNS updater.                               *)
(*                                                                         *)
(*   - the provider-backed poll loop, CloudflareCommand::run               *)
(*     (crates/rudder-cli/src/command/start/cloudflare.rs), with the       *)
(*     provider's record set as the environment;                           *)
(*   - the request-field extractors Hostname and IpVariant                 *)
(*     (crates/rudder-extractors/src/hostname.rs, ip_variant.rs);          *)
(*   - the provider's response envelope, CloudflareResponse<T>             *)
(*     (crates/rudder-http-client/src/private/cloudflare.rs);              *)
(*   - the BasicAuth extractor and the worker's request handler            *)
(*     (crates/rudder-extractors/src/basic_auth.rs,                        *)
(*     crates/rudder-cloudflare-worker/src/auth.rs, routes.rs);            *)
(*   - the address lookup, GetIpCommand::run                               *)
(*     (crates/rudder-cli/src/command/get_ip.rs).                          *)
(*                                                                         *)
(* Option<T> is a sequence: <<>> is None, <<x>> is Some(x).  Text that the *)
(* code only compares is a TLA+ string; text that the code parses is a     *)
(* sequence of one-character strings.                                      *)
(***************************************************************************)
EXTENDS Integers, Sequences, FiniteSets, TLC

VARIABLES
    pc,          \* the await point CloudflareCommand::run is suspended at
    token,       \* CloudflareCommand.token
    zones,       \* the zones list_zones returned (None until it answered)
    zone,        \* the single zone kept after startup
    last_ip,     \* last_ip: Option<IpAddr>
    ip,          \* the address resolved in the current cycle
    listed,      \* existing_records of the current pass (None until listed)
    calls,       \* provider record calls issued in the current pass
    provider,    \* the provider's records of the zone (environment)
    provider0,   \* the provider's records when the service started
    prev_ip,     \* last_ip as it was when the current cycle began
    polled,      \* whether the loop ever reached ticker.tick()
    exit,        \* Some(error context) once run() has returned Err
    req,         \* an inbound request: its query parameters and headers
    host_res,    \* what the Hostname extractor returned for req
    ip_res,      \* what the IpVariant extractor returned for req
    body,        \* a provider response body handed to CloudflareResponse<T>
    ttype,       \* the T the response is decoded for
    decoded,     \* what CloudflareResponse::<T>::deserialize returned for body
    outcome,     \* what into_result returned for the decoded response
    auth_res,    \* what the EmailAndToken extractor returned for req
    response,    \* the response of the worker to req
    get_pc,      \* the await point GetIpCommand::run is suspended at
    watch,       \* GetIpCommand.watch
    last_gate,   \* last_gate: Option<SocketAddr> of GetIpCommand::run
    get_last_ip, \* last_ip: Option<IpAddr> of GetIpCommand::run
    gateway,     \* the gateway found in the current cycle
    ticks,       \* how many times ticker.tick() has completed
    printed,     \* the lines printed in the current cycle
    get_result   \* Some(result) once GetIpCommand::run has returned

pollVars == <<pc, token, zones, zone, last_ip, ip, listed, calls, provider,
              provider0, prev_ip, polled, exit>>

extractVars == <<req, host_res, ip_res>>

envelopeVars == <<body, ttype, decoded, outcome>>

workerVars == <<auth_res, response>>

getIpVars == <<get_pc, watch, last_gate, get_last_ip, gateway, ticks, printed,
               get_result>>

nonPollVars == <<extractVars, envelopeVars, workerVars, getIpVars>>

nonExtractVars == <<pollVars, envelopeVars, workerVars, getIpVars>>

nonEnvelopeVars == <<pollVars, extractVars, workerVars, getIpVars>>

\* the variables no request touches
nonRequestVars == <<pollVars, envelopeVars, getIpVars>>

nonGetIpVars == <<pollVars, extractVars, envelopeVars, workerVars>>

vars == <<pollVars, extractVars, envelopeVars, workerVars, getIpVars>>

-----------------------------------------------------------------------------
(* Bounds of the model *)

\* how many records the zone holds when the service starts
MaxRecords == 3

\* how many zones list_zones may answer with
MaxZones == 2

\* how many query parameters and headers a request of the model carries
MaxFields == 3

\* how many top-level errors a failure response of the model lists
MaxErrors == 2

\* how many ticks of the address lookup the model follows
MaxTicks == 3

-----------------------------------------------------------------------------
(* Text helpers *)

None == <<>>

Some(x) == <<x>>

DecDigits == <<"0", "1", "2", "3", "4", "5", "6", "7", "8", "9">>

HexDigits == <<"0", "1", "2", "3", "4", "5", "6", "7", "8", "9",
               "a", "b", "c", "d", "e", "f">>

RECURSIVE Dec(_)
Dec(n) == IF n < 10 THEN DecDigits[n + 1]
          ELSE Dec(n \div 10) \o DecDigits[(n % 10) + 1]

RECURSIVE Hex(_)
Hex(n) == IF n < 16 THEN HexDigits[n + 1]
          ELSE Hex(n \div 16) \o HexDigits[(n % 16) + 1]

\* the elements of s, each rendered by Fmt, joined by sep
RECURSIVE JoinWith(_, _, _)
JoinWith(s, sep, hex) ==
    IF s = <<>> THEN ""
    ELSE LET h == IF hex THEN Hex(Head(s)) ELSE Dec(Head(s))
         IN IF Len(s) = 1 THEN h ELSE h \o sep \o JoinWith(Tail(s), sep, hex)

-----------------------------------------------------------------------------
(* Addresses: std::net::IpAddr as the code uses it *)

V4(a, b, c, d) == [fam |-> 4, seg |-> <<a, b, c, d>>]

V6(s) == [fam |-> 6, seg |-> s]

\* length of the run of zero segments of s that starts at i
RECURSIVE ZeroRun(_, _)
ZeroRun(s, i) == IF i > Len(s) \/ s[i] # 0 THEN 0 ELSE 1 + ZeroRun(s, i + 1)

\* the first longest run of zero segments: <<start, length>>
LongestZeroRun(s) ==
    LET best == CHOOSE i \in 1..Len(s) :
                    \A j \in 1..Len(s) :
                        \/ ZeroRun(s, i) > ZeroRun(s, j)
                        \/ (ZeroRun(s, i) = ZeroRun(s, j) /\ i <= j)
    IN <<best, ZeroRun(s, best)>>

\* ip.to_string(): dotted decimal, or RFC 5952 lower-case compressed hex
IpToString(a) ==
    IF a.fam = 4 THEN JoinWith(a.seg, ".", FALSE)
    ELSE LET s == a.seg
             run == LongestZeroRun(s)
         IN IF SubSeq(s, 1, 5) = <<0, 0, 0, 0, 0>> /\ s[6] = 65535
            THEN "::ffff:" \o JoinWith(<<s[7] \div 256, s[7] % 256,
                                         s[8] \div 256, s[8] % 256>>, ".", FALSE)
            ELSE IF run[2] > 1
            THEN JoinWith(SubSeq(s, 1, run[1] - 1), ":", TRUE) \o "::"
                 \o JoinWith(SubSeq(s, run[1] + run[2], Len(s)), ":", TRUE)
            ELSE JoinWith(s, ":", TRUE)

\* the addresses the gateway may report
GatewayIps ==
    { V4(203, 0, 113, 5), V4(198, 51, 100, 9),
      V6(<<8193, 3512, 0, 0, 0, 0, 0, 1>>) }

-----------------------------------------------------------------------------
(* Provider records: CloudflareDnsRecord *)

default_ttl == 3600

\* impl From<IpAddr> for CloudflareDnsRecordKind
KindFrom(a) == IF a.fam = 4 THEN "A" ELSE "AAAA"

\* impl Default for CloudflareDnsRecord
DefaultRecord ==
    [id |-> "", kind |-> "A", name |-> "", content |-> "",
     comment |-> None, proxied |-> FALSE, ttl |-> default_ttl]

\* CloudflareCommand.hostname, already validated
hostname == "home.example.com"

Rec(k, n, c, cm, px, t) ==
    [id |-> "", kind |-> k, name |-> n, content |-> c,
     comment |-> cm, proxied |-> px, ttl |-> t]

\* what the zone may hold before the service starts
RecordPool ==
    { Rec("A", hostname, "203.0.113.5", None, FALSE, 3600),
      Rec("A", hostname, "198.51.100.9", Some("keep"), TRUE, 1),
      Rec("AAAA", hostname, "2001:DB8:0:0:0:0:0:1", Some("v6"), FALSE, 300),
      Rec("AAAA", hostname, "2001:db8::1", None, FALSE, 3600),
      Rec("TXT", hostname, "203.0.113.5", None, FALSE, 3600),
      Rec("A", "www.example.com", "198.51.100.9", None, TRUE, 1) }

RecordId(n) == "r" \o Dec(n)

\* the record lists the zone may start with: distinct records, ids by position
InitialProviders ==
    { [i \in DOMAIN g |-> [g[i] EXCEPT !.id = RecordId(i)]] :
        g \in { h \in UNION { [1..m -> RecordPool] : m \in 0..MaxRecords } :
                  \A i, j \in DOMAIN h : i # j => h[i] # h[j] } }

\* a provider-assigned id no record of rs carries
FreshId(rs) == RecordId(Len(rs) + 1)

\* the body of a create or update request: id is skip_serializing
Wire(r) == [kind |-> r.kind, name |-> r.name, content |-> r.content,
            comment |-> r.comment, proxied |-> r.proxied, ttl |-> r.ttl]

\* the provider stores a created record under a fresh id
ProviderCreate(rs, r) == Append(rs, [r EXCEPT !.id = FreshId(rs)])

\* the provider overwrites the record addressed by id, keeping its id
ProviderUpdate(rs, id, r) ==
    [i \in DOMAIN rs |-> IF rs[i].id = id THEN [r EXCEPT !.id = id] ELSE rs[i]]

-----------------------------------------------------------------------------
(* The reconciliation pass, steps 5a and 5b of CloudflareCommand::run *)

Call(op, z, id, rec) == [op |-> op, zone |-> z, id |-> id, record |-> rec]

\* a find that forgets the kind
FindExistingByName(records, name, kind) ==
    LET hits == { i \in DOMAIN records : records[i].name = name }
    IN IF hits = {} THEN None
       ELSE Some(records[CHOOSE i \in hits : \A j \in hits : i <= j])

\* existing_records.into_iter().find(|r| r.name == name && r.kind == kind)
FindExisting(records, name, kind) ==
    LET hits == { i \in DOMAIN records :
                    records[i].name = name /\ records[i].kind = kind }
    IN IF hits = {} THEN None
       ELSE Some(records[CHOOSE i \in hits : \A j \in hits : i <= j])

\* a change test that always reconciles
IpChangedAlways(last, a) == TRUE

\* last_ip.is_none_or(|last| ip != last)
IpChanged(last, a) == last = None \/ a # last[1]

\* a new record whose content was never filled in
NewRecordNoContent(name, kind, a) ==
    [DefaultRecord EXCEPT !.kind = kind, !.name = name]

\* the record sent when no record exists yet
NewRecord(name, kind, a) ==
    [DefaultRecord EXCEPT !.kind = kind, !.name = name, !.content = IpToString(a)]

\* an update built from the defaults instead of from the existing record
UpdatedRecordFromDefault(existing, a) ==
    [DefaultRecord EXCEPT !.id = existing.id, !.kind = existing.kind,
                          !.name = existing.name, !.content = IpToString(a)]

\* the record sent when one exists: a clone with its content replaced
UpdatedRecord(existing, a) == [existing EXCEPT !.content = IpToString(a)]

\* step 5b without the content comparison: a record of the name and kind
\* is taken to be up to date
ReconcileCreateOnly(z, records, name, a) ==
    LET desired_kind == KindFrom(a)
        existing_record == FindExisting(records, name, desired_kind)
    IN IF existing_record # None
       THEN None
       ELSE Some(Call("create", z, "", Some(NewRecord(name, desired_kind, a))))

\* step 5b with the else lost: an update is followed by a create
ReconcileFallThrough(z, records, name, a) ==
    LET desired_kind == KindFrom(a)
        existing_record == FindExisting(records, name, desired_kind)
        create == Call("create", z, "", Some(NewRecord(name, desired_kind, a)))
    IN IF existing_record # None
       THEN LET existing == existing_record[1]
            IN IF existing.content = IpToString(a)
               THEN None
               ELSE <<Call("update", z, existing.id,
                           Some(UpdatedRecord(existing, a))), create>>
       ELSE Some(create)

\* the mutating call step 5b issues for these listed records, if any
Reconcile(z, records, name, a) ==
    LET desired_kind == KindFrom(a)
        existing_record == FindExisting(records, name, desired_kind)
    IN IF existing_record # None
       THEN LET existing == existing_record[1]
            IN IF existing.content = IpToString(a)
               THEN None
               ELSE Some(Call("update", z, existing.id,
                              Some(UpdatedRecord(existing, a))))
       ELSE Some(Call("create", z, "", Some(NewRecord(name, desired_kind, a))))

-----------------------------------------------------------------------------
(* Startup, steps 1 and 2 of CloudflareCommand::run *)

Zone(n) == [id |-> "z" \o Dec(n), name |-> "example.com"]

\* what list_zones may answer with
ZoneLists == { [i \in 1..n |-> Zone(i)] : n \in 0..MaxZones }

\* api_token.trim().is_empty() on the tokens of the model
TokenIsEmpty(t) == t \in {"", " "}

\* a check of step 2 that only refuses an empty list
ZonesErrorOnlyEmpty(zs) ==
    IF Len(zs) = 0 THEN Some("given api token is not assigned to any zones")
    ELSE None

\* the zone validation of step 2: Some(error) unless exactly one zone came back
ZonesError(zs) ==
    IF Len(zs) = 0 THEN Some("given api token is not assigned to any zones")
    ELSE IF Len(zs) > 1 THEN Some("given api token is assigned to multiple zones")
    ELSE None

Exit(msg) ==
    /\ pc' = "exited"
    /\ exit' = Some(msg)

\* no request is being looked at
ExtractIdle ==
    /\ req = {}
    /\ host_res = None
    /\ ip_res = None

\* no response body is being decoded
EnvelopeIdle ==
    /\ body = None
    /\ ttype = ""
    /\ decoded = None
    /\ outcome = None

\* no request is being answered
WorkerIdle ==
    /\ auth_res = None
    /\ response = None

\* the address lookup is not running
GetIpIdle ==
    /\ get_pc = "idle"
    /\ watch = FALSE
    /\ last_gate = None
    /\ get_last_ip = None
    /\ gateway = None
    /\ ticks = 0
    /\ printed = <<>>
    /\ get_result = None

PollInit ==
    /\ pc = "client"
    /\ token \in {"", " ", "tok"}
    /\ zones = None
    /\ zone = None
    /\ last_ip = None
    /\ ip = None
    /\ listed = None
    /\ calls = <<>>
    /\ provider \in InitialProviders
    /\ provider0 = provider
    /\ prev_ip = None
    /\ polled = FALSE
    /\ exit = None
    /\ ExtractIdle
    /\ EnvelopeIdle
    /\ WorkerIdle
    /\ GetIpIdle

\* client.cloudflare(self.token)? and the verify_token request
ClientCloudflare ==
    /\ pc = "client"
    /\ IF TokenIsEmpty(token)
       THEN Exit("invalid api credentials: api token is empty")
       ELSE pc' = "verify_token" /\ UNCHANGED exit
    /\ UNCHANGED <<token, zones, zone, last_ip, ip, listed, calls, provider,
                   provider0, prev_ip, polled>>
    /\ UNCHANGED nonPollVars

\* cf.verify_token().await answers; on success list_zones is requested
VerifyToken ==
    /\ pc = "verify_token"
    /\ \E active \in BOOLEAN :
          IF active
          THEN pc' = "list_zones" /\ UNCHANGED exit
          ELSE Exit("failed to verify given api token")
    /\ UNCHANGED <<token, zones, zone, last_ip, ip, listed, calls, provider,
                   provider0, prev_ip, polled>>
    /\ UNCHANGED nonPollVars

\* cf.list_zones().await answers; the ticker is set up on exactly one zone
ListZones ==
    /\ pc = "list_zones"
    /\ \/ /\ Exit("failed to list zones for given api token")
          /\ UNCHANGED <<zones, zone>>
       \/ \E zs \in ZoneLists :
             /\ zones' = Some(zs)
             /\ IF ZonesError(zs) # None
                THEN Exit(ZonesError(zs)[1]) /\ UNCHANGED zone
                ELSE /\ zone' = Some(zs[Len(zs)])
                     /\ pc' = "tick"
                     /\ UNCHANGED exit
    /\ UNCHANGED <<token, last_ip, ip, listed, calls, provider,
                   provider0, prev_ip, polled>>
    /\ UNCHANGED nonPollVars

-----------------------------------------------------------------------------
(* The poll loop, steps 3 to 5 of CloudflareCommand::run *)

\* ticker.tick().await completes and search_gateway is started
Tick ==
    /\ pc = "tick"
    /\ pc' = "search_gateway"
    /\ polled' = TRUE
    /\ prev_ip' = last_ip
    /\ ip' = None
    /\ listed' = None
    /\ calls' = <<>>
    /\ UNCHANGED <<token, zones, zone, last_ip, provider, provider0, exit>>
    /\ UNCHANGED nonPollVars

\* search_gateway(..).await answers
SearchGateway ==
    /\ pc = "search_gateway"
    /\ \E found \in BOOLEAN :
          IF found
          THEN pc' = "get_external_ip" /\ UNCHANGED exit
          ELSE Exit("failed to find gateway / router through uPnP")
    /\ UNCHANGED <<token, zones, zone, last_ip, ip, listed, calls, provider,
                   provider0, prev_ip, polled>>
    /\ UNCHANGED nonPollVars

\* gateway.get_external_ip().await answers; on a changed address last_ip is
\* replaced and list_dns_records is requested, else the loop body ends
GetExternalIp ==
    /\ pc = "get_external_ip"
    /\ \/ /\ Exit("failed to get external ip through gateway")
          /\ UNCHANGED <<ip, last_ip, calls>>
       \/ \E a \in GatewayIps :
             /\ ip' = Some(a)
             /\ UNCHANGED exit
             /\ IF IpChanged(last_ip, a)
                THEN /\ last_ip' = Some(a)
                     /\ calls' = Append(calls, Call("list", zone[1].id, "", None))
                     /\ pc' = "list_dns_records"
                ELSE /\ pc' = "tick"
                     /\ UNCHANGED <<last_ip, calls>>
    /\ UNCHANGED <<token, zones, zone, listed, provider, provider0, prev_ip,
                   polled>>
    /\ UNCHANGED nonPollVars

\* the pc a pass moves to once its mutating call, if any, is issued
AfterReconcile(call) ==
    IF call = None THEN "tick"
    ELSE IF call[1].op = "update" THEN "update_dns_record"
    ELSE "create_dns_record"

\* cf.list_dns_records(&zone.id).await answers; step 5b decides and issues
\* the create or update request, or continues
ListDnsRecords ==
    /\ pc = "list_dns_records"
    /\ \/ /\ Exit("failed to fetch current dns records")
          /\ UNCHANGED <<listed, calls>>
       \/ LET call == Reconcile(zone[1].id, provider, hostname, ip[1])
          IN /\ listed' = Some(provider)
             /\ calls' = calls \o call
             /\ pc' = AfterReconcile(call)
             /\ UNCHANGED exit
    /\ UNCHANGED <<token, zones, zone, last_ip, ip, provider, provider0,
                   prev_ip, polled>>
    /\ UNCHANGED nonPollVars

\* cf.update_dns_record(..).await answers: applied, refused, or applied
\* with the answer lost
UpdateDnsRecord ==
    /\ pc = "update_dns_record"
    /\ LET call == calls[Len(calls)]
           applied == ProviderUpdate(provider, call.id, call.record[1])
       IN \/ /\ provider' = applied
             /\ pc' = "tick"
             /\ UNCHANGED exit
          \/ /\ Exit("failed to update dns record")
             /\ provider' \in {provider, applied}
    /\ UNCHANGED <<token, zones, zone, last_ip, ip, listed, calls, provider0,
                   prev_ip, polled>>
    /\ UNCHANGED nonPollVars

\* cf.create_dns_record(..).await answers: applied, refused, or applied
\* with the answer lost
CreateDnsRecord ==
    /\ pc = "create_dns_record"
    /\ LET call == calls[Len(calls)]
           applied == ProviderCreate(provider, call.record[1])
       IN \/ /\ provider' = applied
             /\ pc' = "tick"
             /\ UNCHANGED exit
          \/ /\ Exit("failed to create dns record")
             /\ provider' \in {provider, applied}
    /\ UNCHANGED <<token, zones, zone, last_ip, ip, listed, calls, provider0,
                   prev_ip, polled>>
    /\ UNCHANGED nonPollVars

Init == PollInit

Next ==
    \/ ClientCloudflare
    \/ VerifyToken
    \/ ListZones
    \/ Tick
    \/ SearchGateway
    \/ GetExternalIp
    \/ ListDnsRecords
    \/ UpdateDnsRecord
    \/ CreateDnsRecord

Spec == Init /\ [][Next]_vars

-----------------------------------------------------------------------------
(* Properties of the reconciliation pass *)

IsMutating(c) == c.op \in {"create", "update"}

IsCreate(c) == c.op = "create"

IsUpdate(c) == c.op = "update"

Mutations == SelectSeq(calls, IsMutating)

Creates == SelectSeq(calls, IsCreate)

Updates == SelectSeq(calls, IsUpdate)

\* the pass has listed the zone's records and has taken step 5b
Decided == listed # None /\ ip # None

desired_kind == KindFrom(ip[1])

desired_content == IpToString(ip[1])

\* the listed records step 5a looks among: those of the desired (name, kind)
Matching == { i \in DOMAIN listed[1] :
                listed[1][i].name = hostname /\ listed[1][i].kind = desired_kind }

UpToDate == { i \in Matching : listed[1][i].content = desired_content }

FirstMatching == CHOOSE i \in Matching : \A j \in Matching : i <= j

\* C1 (as claimed): in a pass whose listed records contain a record with the
\* desired name, the desired kind and content string-equal to the desired
\* address, no create_record and no update_record call is made.
C1_NoOpWhenSomeRecordUpToDate ==
    (Decided /\ UpToDate # {}) => Mutations = <<>>

\* C2: in a pass that listed the records and found none with both the desired
\* name and the desired kind, exactly one create_record call is made, for the
\* zone being reconciled, with the desired name and kind, the textual address
\* as content, no comment, proxied = false and ttl = 3600, and no
\* update_record call is made.
C2_CreateWhenAbsent ==
    (Decided /\ Matching = {}) =>
        /\ Len(Creates) = 1
        /\ Updates = <<>>
        /\ Creates[1].zone = zone[1].id
        /\ Wire(Creates[1].record[1]) =
              [kind |-> desired_kind, name |-> hostname,
               content |-> desired_content, comment |-> None,
               proxied |-> FALSE, ttl |-> 3600]

C2_Witness ==
    /\ Decided /\ Matching = {}
    /\ listed[1] # <<>>
    /\ pc = "create_dns_record"
    /\ Len(Creates) = 1

\* the update the claim C3 describes, made for listed record i
UpdateOf(i) ==
    /\ Len(Updates) = 1
    /\ Creates = <<>>
    /\ Updates[1].id = listed[1][i].id
    /\ Updates[1].zone = zone[1].id
    /\ Wire(Updates[1].record[1]) =
          [Wire(listed[1][i]) EXCEPT !.content = desired_content]

\* C3 (as claimed): in a pass where a listed record matches the desired
\* (name, kind) but its content differs from the desired address, exactly one
\* update_record call is made, addressed to that record's id, with the
\* record's fields kept except content; no create_record call is made.
C3_UpdateWhenSomeRecordDiffers ==
    Decided => \A i \in Matching \ UpToDate : UpdateOf(i)

\* C3 (amended): in a pass where some listed record matches the desired
\* (name, kind) and no matching record already holds the desired address,
\* exactly one update_record call is made, addressed to the id of the first
\* matching record, with that record's kind, name, comment, proxied and ttl
\* kept and its content set to the desired address; no create_record call
\* is made.
C3_UpdateFirstWhenNoneUpToDate ==
    (Decided /\ Matching # {} /\ UpToDate = {}) => UpdateOf(FirstMatching)

C3_Witness ==
    /\ Decided /\ Matching # {} /\ UpToDate = {}
    /\ listed[1][FirstMatching].comment # None
    /\ listed[1][FirstMatching].proxied
    /\ pc = "update_dns_record"

\* C4: on every path through a pass, failing ones included, at most one
\* mutating provider call (create_record or update_record) is issued, and
\* no call other than list, create and update (so no delete) is issued.
C4_AtMostOneMutation ==
    /\ Len(Mutations) <= 1
    /\ \A i \in DOMAIN calls : calls[i].op \in {"list", "create", "update"}

C4_Witness ==
    /\ exit # None
    /\ polled
    /\ Len(Mutations) = 1

\* C5: no step changes or removes a provider record whose (name, kind)
\* differs from the (desired hostname, desired kind) of the pass in progress:
\* the record is still there afterwards with the same id and fields.
C5_OtherRecordsUntouched ==
    [][\A i \in DOMAIN provider :
          (\/ ip = None
           \/ provider[i].name # hostname
           \/ provider[i].kind # KindFrom(ip[1]))
          => \E j \in DOMAIN provider' : provider'[j] = provider[i]]_vars

C5_Witness ==
    /\ provider # provider0
    /\ Len(provider) > Len(provider0)
    /\ \E i \in DOMAIN provider0 :
          /\ provider0[i].name = hostname
          /\ provider0[i].kind = "TXT"
          /\ provider[i] = provider0[i]
    /\ \E i \in DOMAIN provider0 :
          /\ provider0[i].kind = "A"
          /\ provider[i].content # provider0[i].content

\* C6 (as claimed): a failure inside a poll cycle abandons only that cycle;
\* once the loop is entered the process does not terminate.
C6_LoopSurvivesFailedCycle ==
    polled => (pc # "exited" /\ exit = None)

\* C7: a cycle whose resolved address equals the last resolved address makes
\* no list_records, create_record or update_record call; calls are made only
\* in a cycle whose address differs from the last one (or when there was none).
C7_UnchangedAddressSkipsReconcile ==
    /\ (ip # None /\ prev_ip = ip) => calls = <<>>
    /\ calls # <<>> => (ip # None /\ prev_ip # ip)

C7_Witness ==
    /\ ip # None
    /\ prev_ip = ip
    /\ pc = "tick"
    /\ calls = <<>>

\* C8: when list_zones answers with no zone or with more than one, run()
\* returns an error and no poll cycle starts: the loop is never entered, no
\* address is resolved and no record call is made.
C8_StartupNeedsExactlyOneZone ==
    (zones # None /\ Len(zones[1]) # 1) =>
        /\ pc = "exited"
        /\ exit # None
        /\ zone = None
        /\ ~polled
        /\ ip = None
        /\ calls = <<>>

C8_Witness ==
    /\ zones # None
    /\ Len(zones[1]) > 1
    /\ exit = Some("given api token is assigned to multiple zones")

-----------------------------------------------------------------------------
(* Text the extractors parse: sequences of one-character strings *)

UpperLetters == <<"A", "B", "C", "D", "E", "F", "G", "H", "I", "J", "K", "L",
                  "M", "N", "O", "P", "Q", "R", "S", "T", "U", "V", "W", "X",
                  "Y", "Z">>

LowerLetters == <<"a", "b", "c", "d", "e", "f", "g", "h", "i", "j", "k", "l",
                  "m", "n", "o", "p", "q", "r", "s", "t", "u", "v", "w", "x",
                  "y", "z">>

\* u8::to_ascii_lowercase
ToLower(c) ==
    IF \E i \in DOMAIN UpperLetters : UpperLetters[i] = c
    THEN LowerLetters[CHOOSE i \in DOMAIN UpperLetters : UpperLetters[i] = c]
    ELSE c

LowerAll(s) == [i \in DOMAIN s |-> ToLower(s[i])]

\* char::is_whitespace on the characters of the model
IsWhitespace(c) == c \in {" ", "\t"}

\* a byte HeaderValue::to_str refuses (not visible ASCII)
OpaqueByte == "0x80"

RECURSIVE TrimStart(_)
TrimStart(s) ==
    IF s # <<>> /\ IsWhitespace(Head(s)) THEN TrimStart(Tail(s)) ELSE s

RECURSIVE TrimEnd(_)
TrimEnd(s) ==
    IF s # <<>> /\ IsWhitespace(s[Len(s)])
    THEN TrimEnd(SubSeq(s, 1, Len(s) - 1))
    ELSE s

\* str::trim
Trim(s) == TrimEnd(TrimStart(s))

StartsWith(s, prefix) ==
    Len(s) >= Len(prefix) /\ SubSeq(s, 1, Len(prefix)) = prefix

\* str::strip_prefix
StripPrefix(s, prefix) ==
    IF StartsWith(s, prefix)
    THEN Some(SubSeq(s, Len(prefix) + 1, Len(s)))
    ELSE None

\* str::eq_ignore_ascii_case
EqIgnoreAsciiCase(s, t) == LowerAll(s) = LowerAll(t)

\* the index of the first c in s, or 0
RECURSIVE IndexOf(_, _, _)
IndexOf(s, c, i) ==
    IF i > Len(s) THEN 0 ELSE IF s[i] = c THEN i ELSE IndexOf(s, c, i + 1)

\* str::split(c), collected
RECURSIVE Split(_, _)
Split(s, c) ==
    LET i == IndexOf(s, c, 1)
    IN IF i = 0 THEN <<s>>
       ELSE <<SubSeq(s, 1, i - 1)>> \o Split(SubSeq(s, i + 1, Len(s)), c)

\* value.split_once(',').map_or(value, |s| s.0)
BeforeFirstComma(s) ==
    LET i == IndexOf(s, ",", 1)
    IN IF i = 0 THEN s ELSE SubSeq(s, 1, i - 1)

Ok(v) == [ok |-> TRUE, val |-> Some(v), status |-> 0, msg |-> ""]

Err(status, msg) == [ok |-> FALSE, val |-> None, status |-> status, msg |-> msg]

\* StatusCode::BAD_REQUEST with the message's fixed text around the source
\* kind and name (a library error's own wording is left out)
BadRequest(text, kind, name, rest) ==
    Err(400, text \o " " \o kind \o " '" \o name \o "'" \o rest)

-----------------------------------------------------------------------------
(* Hostname: crates/rudder-extractors/src/hostname.rs *)

HOSTNAME_QUERY_PARAMS ==
    <<"hostname", "Hostname", "targethostname", "target-hostname",
      "target_hostname", "targetHostname", "TargetHostname">>

HOSTNAME_HEADERS == <<"x-hostname", "x-targethostname", "x-target-hostname">>

HttpPrefix == <<"h", "t", "t", "p", ":", "/", "/">>

HttpsPrefix == <<"h", "t", "t", "p", "s", ":", "/", "/">>

RECURSIVE StripHttpPrefixes(_)
StripHttpPrefixes(current) ==
    LET http == StripPrefix(current, HttpPrefix)
        https == StripPrefix(current, HttpsPrefix)
    IN IF http # None THEN StripHttpPrefixes(TrimStart(http[1]))
       ELSE IF https # None THEN StripHttpPrefixes(TrimStart(https[1]))
       ELSE current

trim_http_prefix(value) == StripHttpPrefixes(Trim(value))

\* the ASCII characters AsciiDenyList::URL forbids, among those of the model
UrlDenied == {" ", "\t", "/", ":", "%", "#", "?", "@", OpaqueByte}

\* Uts46::to_ascii(.., AsciiDenyList::URL, Hyphens::Allow,
\* DnsLength::VerifyAllowRootDot) on ASCII text: lower-cased; refused on a
\* denied character, an empty label (but for one root dot), a label over 63
\* or a name over 253 characters
ToAscii(s) ==
    LET lower == LowerAll(s)
        rooted == lower # <<>> /\ lower[Len(lower)] = "."
        name == IF rooted THEN SubSeq(lower, 1, Len(lower) - 1) ELSE lower
        labels == Split(name, ".")
    IN IF \/ \E i \in DOMAIN lower : lower[i] \in UrlDenied
          \/ \E i \in DOMAIN labels : Len(labels[i]) = 0 \/ Len(labels[i]) > 63
          \/ Len(name) > 253
       THEN None
       ELSE Some(lower)

\* impl FromStr for Hostname
HostnameFromStr(s) == ToAscii(trim_http_prefix(s))

parse_hostname(kind, name, value) ==
    LET trimmed == trim_http_prefix(value)
        parsed == HostnameFromStr(trimmed)
    IN IF trimmed = <<>>
       THEN BadRequest("invalid hostname provided in", kind, name,
                       ": hostname is empty")
       ELSE IF parsed = None
       THEN BadRequest("invalid hostname in", kind, name, "")
       ELSE Ok(parsed[1])

-----------------------------------------------------------------------------
(* Requests: a set of fields, at most one of each place and name.  A query *)
(* parameter is named as written; a header is named in lower case, as the  *)
(* HeaderMap stores it.                                                    *)

Field(place, name, value) == [place |-> place, name |-> name, value |-> value]

Has(r, place, name) == \E f \in r : f.place = place /\ f.name = name

\* params.get(name) / headers.get(name), for a name that is present
Get(r, place, name) ==
    (CHOOSE f \in r : f.place = place /\ f.name = name).value

\* the first name of the list that the request carries at this place
FirstPresent(r, place, names) ==
    LET hits == { i \in DOMAIN names : Has(r, place, names[i]) }
    IN IF hits = {} THEN None
       ELSE Some(names[CHOOSE i \in hits : \A j \in hits : i <= j])

\* HeaderValue::to_str
HeaderIsText(value) == \A i \in DOMAIN value : value[i] # OpaqueByte

\* an extractor that looks at the headers before the query parameters
HostnameHeadersFirst(r) ==
    LET q == FirstPresent(r, "query", HOSTNAME_QUERY_PARAMS)
        h == FirstPresent(r, "header", HOSTNAME_HEADERS)
    IN IF h # None
       THEN IF ~HeaderIsText(Get(r, "header", h[1]))
            THEN BadRequest("invalid UTF8 in", "header", h[1], "")
            ELSE parse_hostname("header", h[1], Get(r, "header", h[1]))
       ELSE IF q # None
       THEN parse_hostname("query parameter", q[1], Get(r, "query", q[1]))
       ELSE Err(400, "no hostname found in query parameters or headers")

\* impl FromRequestParts for Hostname
HostnameFromRequestParts(r) ==
    LET q == FirstPresent(r, "query", HOSTNAME_QUERY_PARAMS)
        h == FirstPresent(r, "header", HOSTNAME_HEADERS)
    IN IF q # None
       THEN parse_hostname("query parameter", q[1], Get(r, "query", q[1]))
       ELSE IF h # None
       THEN IF ~HeaderIsText(Get(r, "header", h[1]))
            THEN BadRequest("invalid UTF8 in", "header", h[1], "")
            ELSE parse_hostname("header", h[1], Get(r, "header", h[1]))
       ELSE Err(400, "no hostname found in query parameters or headers")

-----------------------------------------------------------------------------
(* IpVariant: crates/rudder-extractors/src/ip_variant.rs *)

IP_QUERY_PARAMS ==
    <<"ip", "Ip", "myip", "my_ip", "myIp", "MyIp", "targetip", "target-ip",
      "target_ip", "targetIp", "TargetIp">>

IP_HEADERS == <<"x-ip", "x-myip", "x-my-ip", "x-targetip", "x-target-ip">>

CF_CONNECTING_IP == "cf-connecting-ip"

X_REAL_IP == "x-real-ip"

X_FORWARDED_FOR == "x-forwarded-for"

IsDecDigit(c) == \E i \in DOMAIN DecDigits : DecDigits[i] = c

IsHexDigit(c) == \E i \in DOMAIN HexDigits : HexDigits[i] = ToLower(c)

DecValue(c) == (CHOOSE i \in DOMAIN DecDigits : DecDigits[i] = c) - 1

HexValue(c) == (CHOOSE i \in DOMAIN HexDigits : HexDigits[i] = ToLower(c)) - 1

RECURSIVE DecNumber(_)
DecNumber(s) ==
    IF s = <<>> THEN 0
    ELSE 10 * DecNumber(SubSeq(s, 1, Len(s) - 1)) + DecValue(s[Len(s)])

RECURSIVE HexNumber(_)
HexNumber(s) ==
    IF s = <<>> THEN 0
    ELSE 16 * HexNumber(SubSeq(s, 1, Len(s) - 1)) + HexValue(s[Len(s)])

\* one octet of a dotted address: 1 to 3 digits, no leading zero, at most 255
IsOctet(s) ==
    /\ Len(s) \in 1..3
    /\ \A i \in DOMAIN s : IsDecDigit(s[i])
    /\ (Len(s) > 1 => s[1] # "0")
    /\ DecNumber(s) <= 255

\* one group of a colon address: 1 to 4 hex digits of either case
IsGroup(s) ==
    /\ Len(s) \in 1..4
    /\ \A i \in DOMAIN s : IsHexDigit(s[i])

\* Ipv4Addr::from_str
ParseIpv4(s) ==
    LET parts == Split(s, ".")
    IN IF Len(parts) = 4 /\ \A i \in DOMAIN parts : IsOctet(parts[i])
       THEN Some(V4(DecNumber(parts[1]), DecNumber(parts[2]),
                    DecNumber(parts[3]), DecNumber(parts[4])))
       ELSE None

\* the groups of one side of "::": Some(segments), the last group possibly a
\* dotted address worth two segments; None if a group is malformed
ParseGroups(gs) ==
    LET n == Len(gs)
        dotted == IF n = 0 THEN None ELSE ParseIpv4(gs[n])
        hex == IF dotted = None THEN gs ELSE SubSeq(gs, 1, n - 1)
    IN IF \E i \in DOMAIN hex : ~IsGroup(hex[i]) THEN None
       ELSE Some([i \in DOMAIN hex |-> HexNumber(hex[i])]
                 \o (IF dotted = None THEN <<>>
                     ELSE LET o == dotted[1].seg
                          IN <<o[1] * 256 + o[2], o[3] * 256 + o[4]>>))

\* the places where s holds "::"
DoubleColons(s) == { i \in 1..(Len(s) - 1) : s[i] = ":" /\ s[i + 1] = ":" }

\* Ipv6Addr::from_str: eight groups, or fewer around one "::" that stands
\* for at least one group of zeros
ParseIpv6(s) ==
    LET dc == DoubleColons(s)
    IN IF dc = {}
       THEN LET g == ParseGroups(Split(s, ":"))
            IN IF g # None /\ Len(g[1]) = 8 THEN Some(V6(g[1])) ELSE None
       ELSE IF Cardinality(dc) > 1 THEN None
       ELSE LET at == CHOOSE i \in dc : TRUE
                headText == SubSeq(s, 1, at - 1)
                tailText == SubSeq(s, at + 2, Len(s))
                head == IF headText = <<>> THEN Some(<<>>)
                        ELSE ParseGroups(Split(headText, ":"))
                tail == IF tailText = <<>> THEN Some(<<>>)
                        ELSE ParseGroups(Split(tailText, ":"))
            IN IF \/ head = None
                  \/ tail = None
                  \/ \E i \in DOMAIN headText : headText[i] = "."
               THEN None
               ELSE IF Len(head[1]) + Len(tail[1]) > 7 THEN None
               ELSE Some(V6(head[1]
                            \o [i \in 1..(8 - Len(head[1]) - Len(tail[1])) |-> 0]
                            \o tail[1]))

\* IpAddr::from_str
ParseIpAddr(s) ==
    LET v4 == ParseIpv4(s)
    IN IF v4 # None THEN v4 ELSE ParseIpv6(s)

Variant(v, addr) == [variant |-> v, addr |-> addr]

\* parse_ip(kind, name, value).map(variant)
parse_ip(kind, name, value, variant) ==
    LET trimmed == Trim(value)
        parsed == ParseIpAddr(trimmed)
    IN IF trimmed = <<>>
       THEN BadRequest("empty IP address in", kind, name, "")
       ELSE IF parsed = None
       THEN BadRequest("invalid IP address in", kind, name, "")
       ELSE Ok(Variant(variant, parsed))

\* parse_ip on a header of the auto list, after header_str
parse_auto_header(r, name, first_only) ==
    LET value == Get(r, "header", name)
    IN IF ~HeaderIsText(value)
       THEN BadRequest("invalid UTF8 in", "header", name, "")
       ELSE parse_ip("header", name,
                     IF first_only THEN BeforeFirstComma(value) ELSE value,
                     "Auto")

Fetch == <<"f", "e", "t", "c", "h">>

Auto == <<"a", "u", "t", "o">>

\* an auto resolution that prefers X-Real-Ip to CF-Connecting-Ip
parse_ip_variant_real_ip_first(r, kind, name, raw) ==
    LET value == Trim(raw)
    IN IF EqIgnoreAsciiCase(value, Fetch) THEN Ok(Variant("Fetch", None))
       ELSE IF EqIgnoreAsciiCase(value, Auto)
       THEN IF Has(r, "header", X_REAL_IP)
            THEN parse_auto_header(r, X_REAL_IP, FALSE)
            ELSE IF Has(r, "header", CF_CONNECTING_IP)
            THEN parse_auto_header(r, CF_CONNECTING_IP, FALSE)
            ELSE IF Has(r, "header", X_FORWARDED_FOR)
            THEN parse_auto_header(r, X_FORWARDED_FOR, TRUE)
            ELSE BadRequest("'auto' specified in", kind, name,
                            ", but no relevant IP headers were found")
       ELSE parse_ip(kind, name, value, "Ip")

parse_ip_variant(r, kind, name, raw) ==
    LET value == Trim(raw)
    IN IF EqIgnoreAsciiCase(value, Fetch) THEN Ok(Variant("Fetch", None))
       ELSE IF EqIgnoreAsciiCase(value, Auto)
       THEN IF Has(r, "header", CF_CONNECTING_IP)
            THEN parse_auto_header(r, CF_CONNECTING_IP, FALSE)
            ELSE IF Has(r, "header", X_REAL_IP)
            THEN parse_auto_header(r, X_REAL_IP, FALSE)
            ELSE IF Has(r, "header", X_FORWARDED_FOR)
            THEN parse_auto_header(r, X_FORWARDED_FOR, TRUE)
            ELSE BadRequest("'auto' specified in", kind, name,
                            ", but no relevant IP headers were found")
       ELSE parse_ip(kind, name, value, "Ip")

\* an extractor that goes on to the headers when the query parameter it
\* found does not parse
IpVariantWithFallback(r) ==
    LET q == FirstPresent(r, "query", IP_QUERY_PARAMS)
        h == FirstPresent(r, "header", IP_HEADERS)
        fromQuery == IF q = None THEN Err(400, "")
                     ELSE parse_ip_variant(r, "query parameter", q[1], Get(r, "query", q[1]))
    IN IF q # None /\ (fromQuery.ok \/ h = None)
       THEN fromQuery
       ELSE IF h # None
       THEN IF ~HeaderIsText(Get(r, "header", h[1]))
            THEN BadRequest("invalid UTF8 in", "header", h[1], "")
            ELSE parse_ip_variant(r, "header", h[1], Get(r, "header", h[1]))
       ELSE Err(400, "no IP address found in query parameters or headers")

\* impl FromRequestParts for IpVariant
IpVariantFromRequestParts(r) ==
    LET q == FirstPresent(r, "query", IP_QUERY_PARAMS)
        h == FirstPresent(r, "header", IP_HEADERS)
    IN IF q # None
       THEN parse_ip_variant(r, "query parameter", q[1], Get(r, "query", q[1]))
       ELSE IF h # None
       THEN IF ~HeaderIsText(Get(r, "header", h[1]))
            THEN BadRequest("invalid UTF8 in", "header", h[1], "")
            ELSE parse_ip_variant(r, "header", h[1], Get(r, "header", h[1]))
       ELSE Err(400, "no IP address found in query parameters or headers")

-----------------------------------------------------------------------------
(* The requests of the model *)

\* the words of each logical parameter name, plain and capitalised
LogicalNames ==
    [hostname       |-> <<"hostname">>,
     targethostname |-> <<"target", "hostname">>,
     ip             |-> <<"ip">>,
     myip           |-> <<"my", "ip">>,
     targetip       |-> <<"target", "ip">>]

Capitalised ==
    [hostname |-> "Hostname", target |-> "Target", my |-> "My", ip |-> "Ip"]

RECURSIVE JoinWords(_, _, _)
JoinWords(words, sep, cap) ==
    IF words = <<>> THEN ""
    ELSE LET w == IF cap THEN Capitalised[Head(words)] ELSE Head(words)
         IN IF Len(words) = 1 THEN w
            ELSE w \o sep \o JoinWords(Tail(words), sep, cap)

\* exact, PascalCase, kebab-case and snake_case of a logical name
QueryVariants(l) ==
    { JoinWords(LogicalNames[l], "", FALSE), JoinWords(LogicalNames[l], "", TRUE),
      JoinWords(LogicalNames[l], "-", FALSE), JoinWords(LogicalNames[l], "_", FALSE) }

HostnameLogical == {"hostname", "targethostname"}

IpLogical == {"ip", "myip", "targetip"}

Range(f) == { f[i] : i \in DOMAIN f }

HostnameValues ==
    { <<"a", ".", "b">>,
      <<"h", "t", "t", "p", "s", ":", "/", "/", "C", ".", "d">>,
      <<"a", ".", ".", "b">>,
      <<" ">> }

IpValues ==
    { <<"2", "0", "3", ".", "0", ".", "1", "1", "3", ".", "5">>,
      <<" ", "2", "0", "0", "1", ":", "D", "B", "8", ":", ":", "1">>,
      <<"A", "u", "T", "o", " ">>,
      <<"f", "e", "t", "c", "h">>,
      <<"1", ".", "2", ".", "3">>,
      <<>> }

AutoValues ==
    { <<"1", "9", "8", ".", "5", "1", ".", "1", "0", "0", ".", "9">>,
      <<"1", "9", "2", ".", "0", ".", "2", ".", "7">>,
      <<"2", "0", "3", ".", "0", ".", "1", "1", "3", ".", "5", ",", " ", "1", "0", ".", "0", ".", "0", ".", "1">>,
      <<"b", "a", "d">> }

\* a field a request may carry: <<place, name, values>>
Key(place, name) ==
    <<place, name,
      IF name \in {CF_CONNECTING_IP, X_REAL_IP, X_FORWARDED_FOR} THEN AutoValues
      ELSE IF name \in Range(HOSTNAME_QUERY_PARAMS) \cup Range(HOSTNAME_HEADERS)
                       \cup UNION { QueryVariants(l) : l \in HostnameLogical }
      THEN HostnameValues
      ELSE IpValues>>

\* every recognized name, and every casing variant of a logical name
AllKeys ==
    { Key("query", n) :
        n \in Range(HOSTNAME_QUERY_PARAMS) \cup Range(IP_QUERY_PARAMS)
              \cup UNION { QueryVariants(l) : l \in HostnameLogical \cup IpLogical } }
    \cup { Key("header", n) :
        n \in Range(HOSTNAME_HEADERS) \cup Range(IP_HEADERS)
              \cup {CF_CONNECTING_IP, X_REAL_IP, X_FORWARDED_FOR} }

Ends(names) == {names[1], names[Len(names)]}

\* the first and the last name of each hostname list
HostnameCoreKeys ==
    { Key("query", n) : n \in Ends(HOSTNAME_QUERY_PARAMS) }
    \cup { Key("header", n) : n \in Ends(HOSTNAME_HEADERS) }

\* the first and the last name of each address list, and the auto headers
IpCoreKeys ==
    { Key("query", n) : n \in Ends(IP_QUERY_PARAMS) }
    \cup { Key("header", n) :
             n \in Ends(IP_HEADERS)
                   \cup {CF_CONNECTING_IP, X_REAL_IP, X_FORWARDED_FOR} }

\* the requests that carry exactly the fields named by keys
RECURSIVE RequestsWith(_)
RequestsWith(keys) ==
    IF keys = {} THEN {{}}
    ELSE LET k == CHOOSE x \in keys : TRUE
         IN { r \cup {Field(k[1], k[2], v)} :
                r \in RequestsWith(keys \ {k}), v \in k[3] }

\* a request carries one field of any name, or up to MaxFields fields that
\* one extractor looks at, named by the ends of its lists
KeySets ==
    { {k} : k \in AllKeys }
    \cup { ks \in SUBSET HostnameCoreKeys : Cardinality(ks) <= MaxFields }
    \cup { ks \in SUBSET IpCoreKeys : Cardinality(ks) <= MaxFields }

\* the poll loop's variables while only requests are looked at
PollIdle ==
    /\ pc = "idle"
    /\ token = ""
    /\ zones = None
    /\ zone = None
    /\ last_ip = None
    /\ ip = None
    /\ listed = None
    /\ calls = <<>>
    /\ provider = <<>>
    /\ provider0 = <<>>
    /\ prev_ip = None
    /\ polled = FALSE
    /\ exit = None

ExtractInit ==
    /\ PollIdle
    /\ EnvelopeIdle
    /\ WorkerIdle
    /\ GetIpIdle
    /\ \E ks \in KeySets : req \in RequestsWith(ks)
    /\ host_res = None
    /\ ip_res = None

\* Hostname::from_request_parts(parts)
ExtractHostname ==
    /\ host_res = None
    /\ host_res' = Some(HostnameFromRequestParts(req))
    /\ UNCHANGED <<req, ip_res, nonExtractVars>>

\* IpVariant::from_request_parts(parts)
ExtractIpVariant ==
    /\ ip_res = None
    /\ ip_res' = Some(IpVariantFromRequestParts(req))
    /\ UNCHANGED <<req, host_res, nonExtractVars>>

ExtractNext ==
    \/ ExtractHostname
    \/ ExtractIpVariant

SpecExtract == ExtractInit /\ [][ExtractNext]_vars

-----------------------------------------------------------------------------
(* Properties of the extractors *)

Recognized(place, names) == { n \in Range(names) : Has(req, place, n) }

\* some recognized query parameter and some recognized header are both
\* present, with different values
QueryAndHeaderDiffer(qnames, hnames) ==
    \E q \in Recognized("query", qnames), h \in Recognized("header", hnames) :
        Get(req, "query", q) # Get(req, "header", h)

WithoutHeaders(r, names) ==
    { f \in r : ~(f.place = "header" /\ f.name \in Range(names)) }

\* C9: when a recognized query parameter and a recognized header are both
\* present with different values, the hostname and the address-intent are the
\* ones derived from a present query parameter's value (parsed as a query
\* parameter, the recognized headers not looked at).
C9_QueryWins ==
    /\ (host_res # None /\ QueryAndHeaderDiffer(HOSTNAME_QUERY_PARAMS, HOSTNAME_HEADERS))
        => \E q \in Recognized("query", HOSTNAME_QUERY_PARAMS) :
              host_res[1] = parse_hostname("query parameter", q, Get(req, "query", q))
    /\ (ip_res # None /\ QueryAndHeaderDiffer(IP_QUERY_PARAMS, IP_HEADERS))
        => \E q \in Recognized("query", IP_QUERY_PARAMS) :
              ip_res[1] = parse_ip_variant(WithoutHeaders(req, IP_HEADERS),
                                           "query parameter", q, Get(req, "query", q))

C9_Witness ==
    /\ host_res # None
    /\ host_res[1].ok
    /\ \E q \in Recognized("query", HOSTNAME_QUERY_PARAMS),
          h \in Recognized("header", HOSTNAME_HEADERS) :
          /\ parse_hostname("header", h, Get(req, "header", h)).ok
          /\ parse_hostname("header", h, Get(req, "header", h)).val # host_res[1].val
          /\ parse_hostname("query parameter", q, Get(req, "query", q)).val = host_res[1].val

\* the request that carries one field only
Only(place, name, value) == {Field(place, name, value)}

Exact(l) == JoinWords(LogicalNames[l], "", FALSE)

\* C10 (as claimed): a request carrying a valid value under any casing
\* variant (exact, PascalCase, kebab-case, snake_case) of a logical parameter
\* name, as its only field, yields the same successful result as the request
\* carrying it under the exact name.
C10_CasingVariantsAgree ==
    /\ \A l \in HostnameLogical : \A f \in req :
          (/\ host_res # None
           /\ req = {f}
           /\ f.place = "query"
           /\ f.name \in QueryVariants(l)
           /\ HostnameFromRequestParts(Only("query", Exact(l), f.value)).ok)
          => host_res[1] = HostnameFromRequestParts(Only("query", Exact(l), f.value))
    /\ \A l \in IpLogical : \A f \in req :
          (/\ ip_res # None
           /\ req = {f}
           /\ f.place = "query"
           /\ f.name \in QueryVariants(l)
           /\ IpVariantFromRequestParts(Only("query", Exact(l), f.value)).ok)
          => ip_res[1] = IpVariantFromRequestParts(Only("query", Exact(l), f.value))

\* the value the address-intent is read from: that of the first listed query
\* parameter that is present, else of the first listed header that is present
IpIntent(r) ==
    LET q == FirstPresent(r, "query", IP_QUERY_PARAMS)
        h == FirstPresent(r, "header", IP_HEADERS)
    IN IF q # None THEN Some(Get(r, "query", q[1]))
       ELSE IF h # None THEN Some(Get(r, "header", h[1]))
       ELSE None

IntentIs(r, word) == IpIntent(r) # None /\ LowerAll(Trim(IpIntent(r)[1])) = word

AutoHeaderOrder == <<CF_CONNECTING_IP, X_REAL_IP, X_FORWARDED_FOR>>

\* the text of an auto header that stands for the address
AutoText(r, name) ==
    IF name = X_FORWARDED_FOR THEN BeforeFirstComma(Get(r, "header", name))
    ELSE Get(r, "header", name)

\* C11: when the address-intent value is 'auto' in any letter case and with
\* surrounding whitespace, the result is Auto(address) with the address read
\* from the first present of CF-Connecting-Ip, X-Real-Ip, X-Forwarded-For
\* (for X-Forwarded-For the text before the first comma), whatever other of
\* these headers are present; with none of them present it is a 400 error.
C11_AutoResolution ==
    (ip_res # None /\ IntentIs(req, Auto)) =>
        LET first == FirstPresent(req, "header", AutoHeaderOrder)
        IN IF first = None
           THEN ~ip_res[1].ok /\ ip_res[1].status = 400
           ELSE LET addr == ParseIpAddr(Trim(AutoText(req, first[1])))
                IN /\ ip_res[1].ok <=> addr # None
                   /\ ip_res[1].ok => ip_res[1].val = Some(Variant("Auto", addr))

C11_Witness ==
    /\ ip_res # None
    /\ IntentIs(req, Auto)
    /\ IpIntent(req)[1] # Auto
    /\ ~Has(req, "header", CF_CONNECTING_IP)
    /\ Has(req, "header", X_REAL_IP)
    /\ Has(req, "header", X_FORWARDED_FOR)
    /\ ip_res[1].ok
    /\ ip_res[1].val[1].variant = "Auto"
    /\ ip_res[1].val[1].addr = ParseIpAddr(Get(req, "header", X_REAL_IP))
    /\ ParseIpAddr(Trim(AutoText(req, X_FORWARDED_FOR))) # None
    /\ ParseIpAddr(Trim(AutoText(req, X_FORWARDED_FOR))) # ip_res[1].val[1].addr
    /\ AutoText(req, X_FORWARDED_FOR) # Get(req, "header", X_FORWARDED_FOR)

-----------------------------------------------------------------------------
(* CloudflareResponse<T>: crates/rudder-http-client/src/private/cloudflare.rs *)

\* serde_json::Value: null, a string, an object (its members keyed, keys
\* unique) or an array (its members unkeyed)
JNull == [kind |-> "null", str |-> "", members |-> <<>>]

JStr(text) == [kind |-> "string", str |-> text, members |-> <<>>]

JObj(members) == [kind |-> "object", str |-> "", members |-> members]

JArr(items) ==
    [kind |-> "array", str |-> "",
     members |-> [i \in DOMAIN items |-> [key |-> "", value |-> items[i]]]]

Member(key, value) == [key |-> key, value |-> value]

\* the member of an object under a key
Lookup(v, key) ==
    LET hits == { i \in DOMAIN v.members : v.members[i].key = key }
    IN IF hits = {} THEN None ELSE Some(v.members[CHOOSE i \in hits : TRUE].value)

\* Deserialize for String
DeString(v) == IF v.kind = "string" THEN Some(v.str) ELSE None

\* a struct of String fields, from an object that has them (other members
\* ignored) or from an array of exactly that many strings
DeStrings(v, names) ==
    IF v.kind = "object"
    THEN IF \A i \in DOMAIN names :
               /\ Lookup(v, names[i]) # None
               /\ DeString(Lookup(v, names[i])[1]) # None
         THEN Some([i \in DOMAIN names |-> DeString(Lookup(v, names[i])[1])[1]])
         ELSE None
    ELSE IF v.kind = "array"
    THEN IF /\ Len(v.members) = Len(names)
            /\ \A i \in DOMAIN names : DeString(v.members[i].value) # None
         THEN Some([i \in DOMAIN names |-> DeString(v.members[i].value)[1]])
         ELSE None
    ELSE None

\* CloudflareUserTokenStatus, rename_all = "lowercase": a variant's name as
\* a string, or as the only key of an object whose value is null
TokenStatuses == {"active", "disabled", "expired"}

DeTokenStatus(v) ==
    IF v.kind = "string" /\ v.str \in TokenStatuses THEN Some(v.str)
    ELSE IF /\ v.kind = "object"
            /\ Len(v.members) = 1
            /\ v.members[1].key \in TokenStatuses
            /\ v.members[1].value = JNull
    THEN Some(v.members[1].key)
    ELSE None

\* Deserialize for CloudflareUserToken
DeUserToken(v) ==
    LET field == IF v.kind = "object" THEN Lookup(v, "status")
                 ELSE IF v.kind = "array" /\ Len(v.members) = 1
                 THEN Some(v.members[1].value)
                 ELSE None
    IN IF field # None /\ DeTokenStatus(field[1]) # None
       THEN Some([status |-> DeTokenStatus(field[1])[1]])
       ELSE None

\* Deserialize for CloudflareZoneAccount
DeZoneAccount(v) ==
    LET f == DeStrings(v, <<"id", "name">>)
    IN IF f = None THEN None ELSE Some([id |-> f[1][1], name |-> f[1][2]])

\* Deserialize for CloudflareZone
DeZone(v) ==
    LET own == IF v.kind = "object" THEN DeStrings(v, <<"id", "name">>)
               ELSE IF v.kind = "array" /\ Len(v.members) = 3
               THEN DeStrings(JArr(<<v.members[1].value, v.members[2].value>>),
                              <<"id", "name">>)
               ELSE None
        account == IF v.kind = "object" THEN Lookup(v, "account")
                   ELSE IF v.kind = "array" /\ Len(v.members) = 3
                   THEN Some(v.members[3].value)
                   ELSE None
    IN IF own # None /\ account # None /\ DeZoneAccount(account[1]) # None
       THEN Some([id |-> own[1][1], name |-> own[1][2],
                  account |-> DeZoneAccount(account[1])[1]])
       ELSE None

\* Deserialize for Vec<CloudflareZone>
DeZones(v) ==
    IF v.kind = "array" /\ \A i \in DOMAIN v.members : DeZone(v.members[i].value) # None
    THEN Some([i \in DOMAIN v.members |-> DeZone(v.members[i].value)[1]])
    ELSE None

\* the T of the responses of verify_token and list_zones
ResultTypes == {"CloudflareUserToken", "Vec<CloudflareZone>"}

\* serde_path_to_error::deserialize::<_, T>(value)
DeserializeAs(t, v) ==
    IF t = "CloudflareUserToken" THEN DeUserToken(v) ELSE DeZones(v)

\* an entry of "errors" on the wire; error_chain may be left out
WireError(code, message, chain) ==
    [code |-> code, message |-> message, error_chain |-> chain]

\* Deserialize for CloudflareResponseError: error_chain is #[serde(default)]
RECURSIVE DeResponseError(_)
DeResponseError(e) ==
    [code |-> e.code,
     message |-> e.message,
     error_chain |->
        IF e.error_chain = None THEN <<>>
        ELSE [i \in DOMAIN e.error_chain[1] |-> DeResponseError(e.error_chain[1][i])]]

DeOk(v) == [ok |-> TRUE, val |-> Some(v), msg |-> ""]

DeErr(msg) == [ok |-> FALSE, val |-> None, msg |-> msg]

\* CloudflareResponse::Success { result }
Success(result) == [tag |-> "Success", result |-> Some(result), errors |-> <<>>]

\* CloudflareResponse::Error { errors }
Failure(errors) == [tag |-> "Error", result |-> None, errors |-> errors]

\* CloudflareResponseRaw of a body that is JSON and has a boolean "success":
\* result: Option<Value> is None for a missing and for a null result, errors
\* is #[serde(default)]
RawResult(b) == IF b.result = None \/ b.result[1] = JNull THEN None ELSE b.result

RawErrors(b) ==
    IF b.errors = None THEN <<>>
    ELSE [i \in DOMAIN b.errors[1] |-> DeResponseError(b.errors[1][i])]

\* a decoding that takes a failure without errors for a failure
CloudflareResponseDeserializeLenient(b, t) ==
    IF ~b.json THEN DeErr("response contained invalid json")
    ELSE IF b.success = None THEN DeErr("missing field success")
    ELSE IF b.success[1]
    THEN IF RawResult(b) = None
         THEN DeErr("response was successful, but result is missing")
         ELSE IF DeserializeAs(t, RawResult(b)[1]) = None
         THEN DeErr("failed to deserialize")
         ELSE DeOk(Success(DeserializeAs(t, RawResult(b)[1])[1]))
    ELSE DeOk(Failure(RawErrors(b)))

\* impl Deserialize for CloudflareResponse<T>
CloudflareResponseDeserialize(b, t) ==
    IF ~b.json THEN DeErr("response contained invalid json")
    ELSE IF b.success = None THEN DeErr("missing field success")
    ELSE IF b.success[1]
    THEN IF RawResult(b) = None
         THEN DeErr("response was successful, but result is missing")
         ELSE IF DeserializeAs(t, RawResult(b)[1]) = None
         THEN DeErr("failed to deserialize")
         ELSE DeOk(Success(DeserializeAs(t, RawResult(b)[1])[1]))
    ELSE IF RawErrors(b) = <<>>
    THEN DeErr("response was failure, but errors are missing")
    ELSE DeOk(Failure(RawErrors(b)))

\* anyhow::Error: its messages as Error::chain yields them, the outermost
\* context first and the root cause last
Anyhow(msg) == <<msg>>

Context(error, msg) == <<msg>> \o error

ApiErrorMarker == "cloudflare API error"

\* format!("code: {}, message: {}", self.code, self.message)
ContextLine(e) == "code: " \o Dec(e.code) \o ", message: " \o e.message

\* the fold of a for loop over a list: Step(item, acc) for each item in turn
RECURSIVE FoldContext(_, _, _)

\* add_context that walks error_chain front to back
RECURSIVE add_context_in_order(_, _)
add_context_in_order(e, error) ==
    Context(FoldContext(e.error_chain, error, FALSE), ContextLine(e))

\* CloudflareResponseError::add_context
RECURSIVE add_context(_, _)
add_context(e, error) ==
    Context(FoldContext(e.error_chain, error, TRUE), ContextLine(e))

\* error = item.add_context(error) for each item of list, from the back of
\* the list if rev
FoldContext(list, error, rev) ==
    IF list = <<>> THEN error
    ELSE IF rev
    THEN FoldContext(SubSeq(list, 1, Len(list) - 1),
                     add_context(list[Len(list)], error), rev)
    ELSE FoldContext(Tail(list), add_context(Head(list), error), rev)

ResOk(v) == [ok |-> TRUE, val |-> Some(v), chain |-> <<>>]

ResErr(error) == [ok |-> FALSE, val |-> None, chain |-> error]

\* CloudflareResponse::into_result
into_result(r) ==
    IF r.tag = "Success" THEN ResOk(r.result[1])
    ELSE ResErr(Context(FoldContext(r.errors, Anyhow(ApiErrorMarker), FALSE),
                        ApiErrorMarker))

-----------------------------------------------------------------------------
(* The response bodies of the model *)

ZoneValue ==
    JObj(<<Member("id", JStr("z1")), Member("name", JStr("example.com")),
           Member("account", JObj(<<Member("id", JStr("a1")),
                                    Member("name", JStr("home"))>>))>>)

ResultValues ==
    { JObj(<<Member("status", JStr("active"))>>),
      JObj(<<Member("id", JStr("t1")), Member("status", JStr("disabled"))>>),
      JObj(<<Member("status", JStr("revoked"))>>),
      JArr(<<JStr("expired")>>),
      JArr(<<>>),
      JArr(<<ZoneValue>>),
      JArr(<<JObj(<<Member("id", JStr("z2")), Member("name", JStr("example.org"))>>)>>),
      JStr("ok"),
      JNull }

\* error entries: without a chain, with an empty chain, with a two-level
\* chain, and with a chain of two
ErrorPool ==
    { WireError(1000, "bad request", None),
      WireError(9109, "invalid token", Some(<<>>)),
      WireError(1004, "validation failed",
                Some(<<WireError(9005, "content invalid",
                                 Some(<<WireError(9006, "not an address", None)>>))>>)),
      WireError(1005, "two causes",
                Some(<<WireError(7001, "first cause", None),
                       WireError(7002, "second cause", None)>>)) }

ErrorLists == UNION { [1..n -> ErrorPool] : n \in 0..MaxErrors }

Body(json, success, result, errors) ==
    [json |-> json, success |-> success, result |-> result, errors |-> errors]

\* text that is not JSON, JSON without "success", and every payload
\* {success, result?, errors?}
Bodies ==
    { Body(FALSE, None, None, None), Body(TRUE, None, None, None) }
    \cup { Body(TRUE, Some(ok), r, e) :
             ok \in BOOLEAN,
             r \in {None} \cup { Some(v) : v \in ResultValues },
             e \in {None} \cup { Some(l) : l \in ErrorLists } }

EnvelopeInit ==
    /\ PollIdle
    /\ ExtractIdle
    /\ WorkerIdle
    /\ GetIpIdle
    /\ body \in { Some(b) : b \in Bodies }
    /\ ttype \in ResultTypes
    /\ decoded = None
    /\ outcome = None

\* response.json::<CloudflareResponse<T>>().await
Deserialize ==
    /\ body # None
    /\ decoded = None
    /\ decoded' = Some(CloudflareResponseDeserialize(body[1], ttype))
    /\ UNCHANGED <<body, ttype, outcome, nonEnvelopeVars>>

\* .context(..)?.into_result()
IntoResult ==
    /\ decoded # None
    /\ decoded[1].ok
    /\ outcome = None
    /\ outcome' = Some(into_result(decoded[1].val[1]))
    /\ UNCHANGED <<body, ttype, decoded, nonEnvelopeVars>>

EnvelopeNext ==
    \/ Deserialize
    \/ IntoResult

SpecEnvelope == EnvelopeInit /\ [][EnvelopeNext]_vars

-----------------------------------------------------------------------------
(* Properties of the response envelope *)

\* the body is JSON and carries a boolean "success"
WellFormed(b) == b.json /\ b.success # None

\* the errors list of the body as written, empty if left out
WireErrors(b) == IF b.errors = None THEN <<>> ELSE b.errors[1]

\* the result is present and deserializes as T
ResultMatches(b, t) == b.result # None /\ DeserializeAs(t, b.result[1]) # None

\* C12: a well-formed payload {success, result?, errors} decodes to
\* Success(result) when success is true and the result is present and matches
\* T; to a decode error when success is true and the result is absent or does
\* not match T; to a decode error when success is false and the errors list
\* is empty or absent; and to Failure(errors), the errors in wire order, when
\* success is false and the errors list is not empty.
C12_EnvelopeDecision ==
    (decoded # None /\ WellFormed(body[1])) =>
        LET b == body[1]
            d == decoded[1]
        IN IF b.success[1]
           THEN IF ResultMatches(b, ttype)
                THEN d = DeOk(Success(DeserializeAs(ttype, b.result[1])[1]))
                ELSE ~d.ok
           ELSE IF WireErrors(b) = <<>>
                THEN ~d.ok
                ELSE /\ d.ok
                     /\ d.val[1].tag = "Error"
                     /\ Len(d.val[1].errors) = Len(WireErrors(b))
                     /\ \A i \in DOMAIN WireErrors(b) :
                           /\ d.val[1].errors[i].code = WireErrors(b)[i].code
                           /\ d.val[1].errors[i].message = WireErrors(b)[i].message

C12_Witness ==
    /\ decoded # None
    /\ WellFormed(body[1])
    /\ ~body[1].success[1]
    /\ Len(WireErrors(body[1])) = 2
    /\ WireErrors(body[1])[1].code # WireErrors(body[1])[2].code
    /\ body[1].result # None
    /\ decoded[1].ok
    /\ decoded[1].val[1].tag = "Error"
    /\ decoded[1].val[1].errors[1].code = WireErrors(body[1])[1].code

Reverse(list) == [i \in DOMAIN list |-> list[Len(list) + 1 - i]]

\* how many error entries a list holds, nested ones at any depth included
RECURSIVE EntryCount(_)
EntryCount(list) ==
    IF list = <<>> THEN 0
    ELSE 1 + EntryCount(Head(list).error_chain) + EntryCount(Tail(list))

\* the context lines of the entries of a list in the order they are added:
\* for each entry in turn, those of its chain walked in reverse, then its own
RECURSIVE LinesAdded(_)
LinesAdded(list) ==
    IF list = <<>> THEN <<>>
    ELSE LinesAdded(Reverse(Head(list).error_chain))
         \o <<ContextLine(Head(list))>>
         \o LinesAdded(Tail(list))

\* the layers of a diagnostic from the innermost to the outermost
Layers(res) == Reverse(res.chain)

\* C13: into_result on a Failure composes one diagnostic whose layers, from
\* the innermost to the outermost, are the provider-API-error marker, then
\* exactly one context line 'code: <n>, message: <text>' for every error
\* entry (for each top-level error the lines of its nested chain walked in
\* reverse order, then its own line), then the marker again.
C13_DiagnosticLayers ==
    (outcome # None /\ decoded[1].val[1].tag = "Error") =>
        LET errors == decoded[1].val[1].errors
        IN /\ ~outcome[1].ok
           /\ Len(outcome[1].chain) = EntryCount(errors) + 2
           /\ Layers(outcome[1]) =
                 <<ApiErrorMarker>> \o LinesAdded(errors) \o <<ApiErrorMarker>>

C13_Witness ==
    /\ outcome # None
    /\ decoded[1].val[1].tag = "Error"
    /\ Len(decoded[1].val[1].errors) = 2
    /\ decoded[1].val[1].errors[1].error_chain # <<>>
    /\ decoded[1].val[1].errors[1].error_chain[1].error_chain # <<>>
    /\ Len(decoded[1].val[1].errors[2].error_chain) = 2
    /\ Layers(outcome[1])[2] = "code: 9006, message: not an address"
    /\ Layers(outcome[1])[3] = "code: 9005, message: content invalid"
    /\ Layers(outcome[1])[4] = "code: 1004, message: validation failed"
    /\ Layers(outcome[1])[5] = "code: 7002, message: second cause"

-----------------------------------------------------------------------------
(* BasicAuth: crates/rudder-extractors/src/basic_auth.rs *)

AUTHORIZATION == "authorization"

BasicPrefix == <<"B", "a", "s", "i", "c", " ">>

\* the alphabet of BASE64_STANDARD; a character's value is its index less one
Base64Alphabet ==
    <<"A", "B", "C", "D", "E", "F", "G", "H", "I", "J", "K", "L", "M",
      "N", "O", "P", "Q", "R", "S", "T", "U", "V", "W", "X", "Y", "Z",
      "a", "b", "c", "d", "e", "f", "g", "h", "i", "j", "k", "l", "m",
      "n", "o", "p", "q", "r", "s", "t", "u", "v", "w", "x", "y", "z",
      "0", "1", "2", "3", "4", "5", "6", "7", "8", "9", "+", "/">>

IsBase64(c) == \E i \in DOMAIN Base64Alphabet : Base64Alphabet[i] = c

Base64Value(c) == (CHOOSE i \in DOMAIN Base64Alphabet : Base64Alphabet[i] = c) - 1

\* BASE64_STANDARD.decode: groups of four characters, the last one padded
\* with "=" to four, no bits set beyond the last byte; Some(bytes) or None
Base64Decode(s) ==
    LET n == Len(s)
        pads == IF n >= 2 /\ s[n] = "=" /\ s[n - 1] = "=" THEN 2
                ELSE IF n >= 1 /\ s[n] = "=" THEN 1
                ELSE 0
        m == n - pads
        v == [i \in 1..m |-> IF IsBase64(s[i]) THEN Base64Value(s[i]) ELSE 0]
        Byte(k) ==
            LET g == 4 * ((k - 1) \div 3)
                j == (k - 1) % 3
            IN IF j = 0 THEN v[g + 1] * 4 + v[g + 2] \div 16
               ELSE IF j = 1 THEN (v[g + 2] % 16) * 16 + v[g + 3] \div 4
               ELSE (v[g + 3] % 4) * 64 + v[g + 4]
    IN IF \/ n % 4 # 0
          \/ \E i \in 1..m : ~IsBase64(s[i])
          \/ (pads = 2 /\ v[m] % 16 # 0)
          \/ (pads = 1 /\ v[m] % 4 # 0)
       THEN None
       ELSE Some([k \in 1..((m * 6) \div 8) |-> Byte(k)])

IsContinuation(b, i) == i <= Len(b) /\ b[i] \in 128..191

\* the length of the UTF-8 sequence that starts at b[i], or 0 if none does
Utf8SequenceAt(b, i) ==
    LET c == b[i]
    IN IF c < 128 THEN 1
       ELSE IF c \in 194..223 /\ IsContinuation(b, i + 1) THEN 2
       ELSE IF /\ c \in 224..239
               /\ IsContinuation(b, i + 1)
               /\ IsContinuation(b, i + 2)
               /\ (c = 224 => b[i + 1] >= 160)
               /\ (c = 237 => b[i + 1] <= 159)
       THEN 3
       ELSE IF /\ c \in 240..244
               /\ IsContinuation(b, i + 1)
               /\ IsContinuation(b, i + 2)
               /\ IsContinuation(b, i + 3)
               /\ (c = 240 => b[i + 1] >= 144)
               /\ (c = 244 => b[i + 1] <= 143)
       THEN 4
       ELSE 0

\* String::from_utf8 succeeds
RECURSIVE IsUtf8From(_, _)
IsUtf8From(b, i) ==
    IF i > Len(b) THEN TRUE
    ELSE LET len == Utf8SequenceAt(b, i)
         IN len # 0 /\ IsUtf8From(b, i + len)

IsUtf8(b) == IsUtf8From(b, 1)

Colon == 58

Unauthorized(msg) == Err(401, msg)

\* a split at the last colon, as rsplit_once would do
SplitAtLastColon(b) ==
    LET hits == { i \in DOMAIN b : b[i] = Colon }
        i == CHOOSE x \in hits : \A y \in hits : y <= x
    IN IF hits = {} THEN None
       ELSE Some(<<SubSeq(b, 1, i - 1), SubSeq(b, i + 1, Len(b))>>)

\* basic_str.split_once(':') on the decoded text, that is the bytes it is
\* encoded as: Some(<<username, password>>) split at the first colon
SplitOnceColon(b) ==
    LET i == IndexOf(b, Colon, 1)
    IN IF i = 0 THEN None
       ELSE Some(<<SubSeq(b, 1, i - 1), SubSeq(b, i + 1, Len(b))>>)

\* BasicAuth::<T>::from_request_parts, T built from (username, password)
BasicAuthFromRequestParts(r) ==
    IF ~Has(r, "header", AUTHORIZATION)
    THEN Unauthorized("missing Authorization header")
    ELSE LET contents == StripPrefix(Get(r, "header", AUTHORIZATION), BasicPrefix)
             basic_decoded == IF contents = None THEN None ELSE Base64Decode(contents[1])
             split == IF basic_decoded = None THEN None ELSE SplitOnceColon(basic_decoded[1])
         IN IF contents = None
            THEN Unauthorized("invalid Authorization header: must start with 'Basic '")
            ELSE IF basic_decoded = None
            THEN Unauthorized("invalid Authorization header: encountered invalid base64")
            ELSE IF ~IsUtf8(basic_decoded[1])
            THEN Unauthorized("invalid Authorization header: invalid UTF-8 after decoding base64")
            ELSE IF split = None
            THEN Unauthorized("invalid Authorization header: missing ':' separator after decoding base64")
            ELSE Ok(split[1])

-----------------------------------------------------------------------------
(* The worker: crates/rudder-cloudflare-worker/src/auth.rs, routes.rs *)

\* impl From<(String, String)> for EmailAndToken
EmailAndToken(pair) == [email |-> pair[1], token |-> pair[2]]

\* EmailAndToken::from_request_parts
EmailAndTokenFromRequestParts(r) ==
    LET basic == BasicAuthFromRequestParts(r)
    IN IF basic.ok THEN Ok(EmailAndToken(basic.val[1])) ELSE basic

\* the characters of s as one text
RECURSIVE Text(_)
Text(s) == IF s = <<>> THEN "" ELSE Head(s) \o Text(Tail(s))

Response(status, text) == [status |-> status, text |-> text]

\* an extractor's rejection (StatusCode, String) as the response
Rejection(res) == Response(res.status, res.msg)

\* a handler that resolves nothing for 'fetch' but answers as if it had
root_fetch_allowed(name, ipv) ==
    Response(200, "Parsed dynamic DNS request successfully!"
                  \o "\n- Hostname: " \o Text(name)
                  \o "\n- IP: " \o (IF ipv.addr = None THEN "" ELSE IpToString(ipv.addr[1])))

\* root(_auth, name, ip)
root(name, ipv) ==
    IF ipv.variant = "Fetch"
    THEN Response(400, "ip 'fetch' option can not be used in a Cloudflare Worker")
    ELSE Response(200, "Parsed dynamic DNS request successfully!"
                       \o "\n- Hostname: " \o Text(name)
                       \o "\n- IP: " \o IpToString(ipv.addr[1]))

Handled(auth, host, ipv, resp) ==
    [auth |-> auth, host |-> host, ip |-> ipv, response |-> resp]

\* a router that lets the hostname's rejection go before the credentials'
HandleHostnameFirst(auth, host, ipv) ==
    IF ~host.ok THEN Handled(None, Some(host), None, Rejection(host))
    ELSE IF ~auth.ok THEN Handled(Some(auth), Some(host), None, Rejection(auth))
    ELSE IF ~ipv.ok THEN Handled(Some(auth), Some(host), Some(ipv), Rejection(ipv))
    ELSE Handled(Some(auth), Some(host), Some(ipv), root(host.val[1], ipv.val[1]))

\* Router::new().fallback(any(root)), given what each extractor returns for
\* the request: the arguments of root are extracted in the order they are
\* declared, the first rejection is the response and no later extractor
\* runs, and root runs once all three are there
Handle(auth, host, ipv) ==
    IF ~auth.ok THEN Handled(Some(auth), None, None, Rejection(auth))
    ELSE IF ~host.ok THEN Handled(Some(auth), Some(host), None, Rejection(host))
    ELSE IF ~ipv.ok THEN Handled(Some(auth), Some(host), Some(ipv), Rejection(ipv))
    ELSE Handled(Some(auth), Some(host), Some(ipv), root(host.val[1], ipv.val[1]))

AuthorizationValues ==
    { <<"B", "a", "s", "i", "c", " ", "d", "T", "p", "w">>,   \* u:p
      <<"B", "a", "s", "i", "c", " ", "Y", "T", "p", "i", "O", "m", "M", "=">>,   \* a:b:c
      <<"B", "a", "s", "i", "c", " ", "d", "X", "A", "=">>,   \* up, no separator
      <<"B", "a", "s", "i", "c", " ", "O", "g", "=", "=">>,   \* a lone separator
      <<"B", "a", "s", "i", "c", " ", "/", "w", "=", "=">>,   \* the byte 255, not UTF-8
      <<"B", "a", "s", "i", "c", " ", "d", "T", "p">>,   \* not base64
      <<"B", "e", "a", "r", "e", "r", " ", "d", "T", "p", "w">>,   \* another scheme
      <<"b", "a", "s", "i", "c", " ", "d", "T", "p", "w">> }   \* the scheme in lower case

\* the fields of a request to the worker: credentials or none; a hostname
\* parameter or none; an ip parameter or none, with CF-Connecting-Ip or not
AuthorizationFields ==
    {{}} \cup { {Field("header", AUTHORIZATION, v)} : v \in AuthorizationValues }

WorkerHostnameFields ==
    {{}} \cup { {Field("query", "hostname", v)} : v \in HostnameValues }

WorkerIpFields ==
    {{}}
    \cup { {Field("query", "ip", v)} : v \in IpValues }
    \cup { {Field("query", "ip", v), Field("header", CF_CONNECTING_IP, a)} :
             v \in IpValues, a \in AutoValues }

WorkerInit ==
    /\ PollIdle
    /\ EnvelopeIdle
    /\ WorkerIdle
    /\ GetIpIdle
    /\ \E a \in AuthorizationFields, h \in WorkerHostnameFields, i \in WorkerIpFields :
          req = a \cup h \cup i
    /\ host_res = None
    /\ ip_res = None

\* the worker answers req
Fallback ==
    /\ response = None
    /\ \E auth \in {EmailAndTokenFromRequestParts(req)},
          host \in {HostnameFromRequestParts(req)},
          ipv \in {IpVariantFromRequestParts(req)} :
          LET h == Handle(auth, host, ipv)
          IN /\ auth_res' = h.auth
             /\ host_res' = h.host
             /\ ip_res' = h.ip
             /\ response' = Some(h.response)
    /\ UNCHANGED <<req, nonRequestVars>>

WorkerNext == Fallback

SpecWorker == WorkerInit /\ [][WorkerNext]_vars

-----------------------------------------------------------------------------
(* Properties of the credentials and of the worker *)

\* the bytes the Authorization header decodes to: Some(bytes) if the header
\* is present, starts with 'Basic ' and the rest is base64 of UTF-8 text
DecodedCredentials(r) ==
    IF ~Has(r, "header", AUTHORIZATION) THEN None
    ELSE LET rest == StripPrefix(Get(r, "header", AUTHORIZATION), BasicPrefix)
         IN IF rest = None THEN None
            ELSE IF Base64Decode(rest[1]) = None THEN None
            ELSE IF ~IsUtf8(Base64Decode(rest[1])[1]) THEN None
            ELSE Base64Decode(rest[1])

Separators(b) == { i \in DOMAIN b : b[i] = Colon }

\* C14 (as claimed): credential extraction succeeds only if the header
\* decodes and the decoded text contains exactly one ':'; every other input
\* is rejected with status 401.
C14_ExactlyOneSeparator ==
    auth_res # None =>
        /\ auth_res[1].ok =>
              /\ DecodedCredentials(req) # None
              /\ Cardinality(Separators(DecodedCredentials(req)[1])) = 1
        /\ ~auth_res[1].ok => auth_res[1].status = 401

\* C14 (amended): credential extraction succeeds exactly if the header is
\* present, starts with 'Basic ', its remainder is base64 of UTF-8 text, and
\* the decoded text contains at least one ':'; the text before the first
\* ':' is the username and all text after it, further ':' included, is the
\* password; every other input is rejected with status 401.
C14_SplitAtFirstSeparator ==
    auth_res # None =>
        LET text == DecodedCredentials(req)
        IN /\ auth_res[1].ok <=> (text # None /\ Separators(text[1]) # {})
           /\ auth_res[1].ok =>
                 LET first == CHOOSE i \in Separators(text[1]) :
                                 \A j \in Separators(text[1]) : i <= j
                 IN /\ auth_res[1].val[1].email = SubSeq(text[1], 1, first - 1)
                    /\ auth_res[1].val[1].token = SubSeq(text[1], first + 1, Len(text[1]))
           /\ ~auth_res[1].ok => auth_res[1].status = 401

C14_Witness ==
    /\ auth_res # None
    /\ auth_res[1].ok
    /\ Cardinality(Separators(DecodedCredentials(req)[1])) = 2
    /\ auth_res[1].val[1].email = <<97>>
    /\ auth_res[1].val[1].token = <<98, 58, 99>>

\* the address an Explicit or Auto intent stands for, if it is valid
IntendedAddress(r) ==
    IF IpIntent(r) = None \/ IntentIs(r, Fetch) THEN None
    ELSE IF IntentIs(r, Auto)
    THEN LET first == FirstPresent(r, "header", AutoHeaderOrder)
         IN IF first = None THEN None
            ELSE ParseIpAddr(Trim(AutoText(r, first[1])))
    ELSE ParseIpAddr(Trim(IpIntent(r)[1]))

FetchUnsupported == "ip 'fetch' option can not be used in a Cloudflare Worker"

SuccessText(name, addr) ==
    "Parsed dynamic DNS request successfully!"
    \o "\n- Hostname: " \o Text(name) \o "\n- IP: " \o IpToString(addr)

\* C15: given valid credentials and a valid hostname, the worker answers an
\* address-intent of 'fetch' with a 400 error stating that fetch is
\* unsupported there, and an Explicit or Auto intent with a success response
\* carrying the hostname and the resolved address; it never issues a
\* provider call.
C15_FetchRejectedOthersAnswered ==
    response # None =>
        /\ calls = <<>>
        /\ provider = provider0
        /\ (auth_res[1].ok /\ host_res # None /\ host_res[1].ok) =>
              /\ IntentIs(req, Fetch) =>
                    response[1] = Response(400, FetchUnsupported)
              /\ IntendedAddress(req) # None =>
                    response[1] = Response(200, SuccessText(host_res[1].val[1],
                                                            IntendedAddress(req)[1]))

C15_Witness ==
    /\ response # None
    /\ auth_res[1].ok
    /\ host_res # None
    /\ host_res[1].ok
    /\ IntentIs(req, Fetch)
    /\ ip_res # None
    /\ ip_res[1].ok
    /\ response[1].status = 400

\* C15, the Auto intent answered: a state the worker reaches
C15_AutoAnswered ==
    /\ response # None
    /\ IntentIs(req, Auto)
    /\ response[1].status = 200
    /\ response[1].text =
          "Parsed dynamic DNS request successfully!\n- Hostname: c.d\n- IP: 198.51.100.9"

\* C19: the worker evaluates credentials, hostname, address-intent in this
\* order and reports the first failure only: missing or malformed Basic
\* credentials are answered 401 whatever the hostname and ip fields are, and
\* valid credentials with a missing or invalid hostname are answered with the
\* hostname's 400 error whatever the ip field is.
C19_FirstFailureOnly ==
    response # None =>
        LET auth == BasicAuthFromRequestParts(req)
            host == HostnameFromRequestParts(req)
        IN /\ ~auth.ok =>
                 /\ response[1] = Response(401, auth.msg)
                 /\ host_res = None
                 /\ ip_res = None
           /\ (auth.ok /\ ~host.ok) =>
                 /\ response[1] = Response(400, host.msg)
                 /\ ip_res = None

C19_Witness ==
    /\ response # None
    /\ ~BasicAuthFromRequestParts(req).ok
    /\ Has(req, "header", AUTHORIZATION)
    /\ HostnameFromRequestParts(req).ok
    /\ IntentIs(req, Fetch)
    /\ response[1].status = 401

-----------------------------------------------------------------------------
(* GetIpCommand::run: crates/rudder-cli/src/command/get_ip.rs *)

\* the gateway addresses discovery may answer with
GatewayAddrs == {"192.168.1.1:1900", "192.168.0.1:1900"}

\* if last.is_none_or(|last| now != last): the line printed for a value
\* that was found or has changed, none for an unchanged one
Announce(last, now, what, text) ==
    IF last = None THEN <<"Found " \o what \o ": " \o text>>
    ELSE IF last[1] # now THEN <<"Changed " \o what \o ": " \o text>>
    ELSE <<>>

GetIpReturn(result) ==
    /\ get_pc' = "returned"
    /\ get_result' = Some(result)

GetIpInit ==
    /\ PollIdle
    /\ ExtractIdle
    /\ EnvelopeIdle
    /\ WorkerIdle
    /\ get_pc = "tick"
    /\ watch \in BOOLEAN
    /\ last_gate = None
    /\ get_last_ip = None
    /\ gateway = None
    /\ ticks = 0
    /\ printed = <<>>
    /\ get_result = None

\* ticker.tick().await completes
GetIpTick ==
    /\ get_pc = "tick"
    /\ ticks < MaxTicks
    /\ ticks' = ticks + 1
    /\ get_pc' = "search_gateway"
    /\ gateway' = None
    /\ printed' = <<>>
    /\ UNCHANGED <<watch, last_gate, get_last_ip, get_result, nonGetIpVars>>

\* search_gateway(options).await answers: an error returns from run, a
\* gateway is announced if it was found or has changed
GetIpSearchGateway ==
    /\ get_pc = "search_gateway"
    /\ \/ /\ GetIpReturn("failed to find gateway / router through uPnP")
          /\ UNCHANGED <<gateway, printed>>
       \/ \E g \in GatewayAddrs :
             /\ gateway' = Some(g)
             /\ printed' = Announce(last_gate, g, "gateway / router", g)
             /\ get_pc' = "get_external_ip"
             /\ UNCHANGED get_result
    /\ UNCHANGED <<watch, last_gate, get_last_ip, ticks, nonGetIpVars>>

\* gateway.get_external_ip().await answers: an error returns from run; an
\* address is announced if it was found or has changed, both last values
\* are stored, and run returns unless it is watching
GetIpExternalIp ==
    /\ get_pc = "get_external_ip"
    /\ \/ /\ GetIpReturn("failed to get external ip through gateway")
          /\ UNCHANGED <<last_gate, get_last_ip, printed>>
       \/ \E a \in GatewayIps :
             /\ printed' = printed \o Announce(get_last_ip, a, "external IP", IpToString(a))
             /\ last_gate' = gateway
             /\ get_last_ip' = Some(a)
             /\ IF ~watch
                THEN GetIpReturn("Ok")
                ELSE get_pc' = "tick" /\ UNCHANGED get_result
    /\ UNCHANGED <<watch, gateway, ticks, nonGetIpVars>>

GetIpNext ==
    \/ GetIpTick
    \/ GetIpSearchGateway
    \/ GetIpExternalIp

SpecGetIp == GetIpInit /\ [][GetIpNext]_vars

\* C16 (as claimed): in one-shot mode the address lookup runs exactly one
\* discover-and-resolve cycle and then returns; in watch mode it never
\* returns on its own.
C16_WatchNeverReturns ==
    /\ (~watch /\ get_pc = "returned") => ticks = 1
    /\ (~watch /\ get_pc = "tick") => ticks = 0
    /\ watch => get_pc # "returned"

-----------------------------------------------------------------------------
(* The stored address and the provider *)

\* the provider holds a record of the configured hostname and of the kind of
\* the address a, whose content is the text of a
ProviderHolds(a) ==
    \E i \in DOMAIN provider :
        /\ provider[i].name = hostname
        /\ provider[i].kind = KindFrom(a)
        /\ provider[i].content = IpToString(a)

\* C17: whenever the poll loop waits for its next tick with a stored last
\* address, the provider holds a record for the configured hostname and the
\* kind of that address whose content is the text of the address (the
\* provider applying every successful create and update, nothing else
\* modifying the zone).
C17_StoredAddressAtProvider ==
    (pc = "tick" /\ exit = None /\ last_ip # None) => ProviderHolds(last_ip[1])

C17_Witness ==
    /\ pc = "tick"
    /\ exit = None
    /\ last_ip # None
    /\ prev_ip # None
    /\ prev_ip # last_ip
    /\ calls # <<>>
    /\ calls[Len(calls)].op = "update"
    /\ ~ProviderHolds(prev_ip[1])
    /\ ProviderHolds(last_ip[1])

-----------------------------------------------------------------------------
(* No fallback past the first present source *)

\* the value the hostname is read from: that of the first listed query
\* parameter that is present, else of the first listed header
HostnameSource(r) ==
    LET q == FirstPresent(r, "query", HOSTNAME_QUERY_PARAMS)
        h == FirstPresent(r, "header", HOSTNAME_HEADERS)
    IN IF q # None THEN Some(Get(r, "query", q[1]))
       ELSE IF h # None THEN Some(Get(r, "header", h[1]))
       ELSE None

\* a hostname value that is neither empty nor invalid
ValidHostname(v) == trim_http_prefix(v) # <<>> /\ ToAscii(trim_http_prefix(v)) # None

\* an address value that is neither empty nor invalid
ValidAddress(v) == ParseIpAddr(Trim(v)) # None

\* some other recognized field of the request carries a valid value
OtherValidHostname(r) ==
    \E f \in r : /\ f.value # HostnameSource(r)[1]
                 /\ f.name \in Range(HOSTNAME_QUERY_PARAMS) \cup Range(HOSTNAME_HEADERS)
                 /\ ValidHostname(f.value)

OtherValidAddress(r) ==
    \E f \in r : /\ f.value # IpIntent(r)[1]
                 /\ f.name \in Range(IP_QUERY_PARAMS) \cup Range(IP_HEADERS)
                 /\ ValidAddress(f.value)

\* C18: if the highest-priority present field (the first listed query
\* parameter that is present, else the first listed header; for 'auto' the
\* first present of CF-Connecting-Ip, X-Real-Ip, X-Forwarded-For) carries an
\* empty or invalid value, the result is a 400 error, even when a
\* lower-priority field carries a valid value.
C18_NoFallback ==
    /\ (host_res # None /\ HostnameSource(req) # None
        /\ ~ValidHostname(HostnameSource(req)[1]))
        => (~host_res[1].ok /\ host_res[1].status = 400)
    /\ (ip_res # None /\ IpIntent(req) # None
        /\ ~IntentIs(req, Fetch) /\ ~IntentIs(req, Auto)
        /\ ~ValidAddress(IpIntent(req)[1]))
        => (~ip_res[1].ok /\ ip_res[1].status = 400)
    /\ (ip_res # None /\ IntentIs(req, Auto)
        /\ FirstPresent(req, "header", AutoHeaderOrder) # None
        /\ ~ValidAddress(AutoText(req, FirstPresent(req, "header", AutoHeaderOrder)[1])))
        => (~ip_res[1].ok /\ ip_res[1].status = 400)

C18_Witness ==
    /\ ip_res # None
    /\ IpIntent(req) # None
    /\ Has(req, "query", "ip")
    /\ ~ValidAddress(IpIntent(req)[1])
    /\ ~IntentIs(req, Fetch)
    /\ ~IntentIs(req, Auto)
    /\ OtherValidAddress(req)
    /\ ~ip_res[1].ok
    /\ ip_res[1].status = 400

\* C18, for the hostname and for 'auto': states the extractors reach
C18_HostnameNoFallback ==
    /\ host_res # None
    /\ HostnameSource(req) # None
    /\ ~ValidHostname(HostnameSource(req)[1])
    /\ OtherValidHostname(req)
    /\ ~host_res[1].ok

C18_AutoNoFallback ==
    /\ ip_res # None
    /\ IntentIs(req, Auto)
    /\ Has(req, "header", CF_CONNECTING_IP)
    /\ ~ValidAddress(Get(req, "header", CF_CONNECTING_IP))
    /\ Has(req, "header", X_REAL_IP)
    /\ ValidAddress(Get(req, "header", X_REAL_IP))
    /\ ~ip_res[1].ok

====
